---- MODULE Spec2Model ----
(***************************************************************************)
(* Model of streamlit_app.py: the per-identifier fetch-and-extract         *)
(* pipeline (get_myntra_data and its helpers) and the batch loop that      *)
(* fans it out over a ThreadPoolExecutor.                                  *)
(*                                                                         *)
(* Text (an HTML body, a script block) is a sequence of lexemes: the       *)
(* structural characters  { } [ ] " : , ;  and the blank, the decimal      *)
(* digits, and indivisible runs of other characters such as "mrp".         *)
(* A Python value is a tagged pair: <<"str", lexemes>>, <<"num", n>>,      *)
(* <<"dict", function>>, <<"list", sequence>>, <<"None", 0>>.              *)
(***************************************************************************)
EXTENDS Integers, Sequences, FiniteSets, TLC

VARIABLES
    ids,          \* ids: the Product_ID column, in input order
    max_workers,  \* the sidebar's concurrency limit
    retries,      \* get_myntra_data's retries argument
    backoff,      \* get_myntra_data's backoff argument
    mainpc,       \* position of the script's main thread
    calls,        \* the get_myntra_data calls, one per submitted future:
                  \*   pid, pc, attempt (the loop variable), ret (the returned
                  \*   tuple) and, for an instrumented call, trace (the GETs
                  \*   and sleeps performed, in order)
    yielded,      \* the futures as_completed has handed to the batch loop
    results,      \* the results list of the batch loop
    done,         \* the completed count shown by the progress bar
    csv,          \* the rows written to the CSV buffer
    call          \* a direct call of one helper: its argument and result

vars == <<ids, max_workers, retries, backoff, mainpc, calls, yielded, results,
          done, csv, call>>

batchVars == <<ids, max_workers, retries, backoff, mainpc, calls, yielded,
               results, done, csv>>

-----------------------------------------------------------------------------
(* Python values *)

Num(n) == <<"num", n>>
Str(s) == <<"str", s>>
Dict(f) == <<"dict", f>>
List(s) == <<"list", s>>
None == <<"None", 0>>

\* A string literal of the source that is a single lexeme.
Lit(w) == Str(<<w>>)

IsDict(v) == v[1] = "dict"
IsList(v) == v[1] = "list"
IsNumber(v) == v[1] = "num"

\* Python truthiness, as used by `if x`, `not x`, `x or y`.
Truthy(v) ==
    CASE v[1] = "None" -> FALSE
      [] v[1] = "num" -> v[2] # 0
      [] v[1] = "str" -> v[2] # <<>>
      [] v[1] = "list" -> v[2] # <<>>
      [] v[1] = "dict" -> DOMAIN v[2] # {}
      [] OTHER -> TRUE

\* x or y
PyOr(x, y) == IF Truthy(x) THEN x ELSE y

\* `key in d` and d.get(key) on a dict value.
HasKey(d, key) == <<key>> \in DOMAIN d[2]
Item(d, key) == d[2][<<key>>]
DictGet(d, key) == IF HasKey(d, key) THEN Item(d, key) ELSE None

-----------------------------------------------------------------------------
(* json.loads on a lexeme sequence *)

DigitChars == <<"0", "1", "2", "3", "4", "5", "6", "7", "8", "9">>
IsDigit(c) == \E d \in 1..10 : DigitChars[d] = c
DigitVal(c) == (CHOOSE d \in 1..10 : DigitChars[d] = c) - 1

ParseFail == [ok |-> FALSE, val |-> None, rest |-> <<>>]
ParseOk(v, t) == [ok |-> TRUE, val |-> v, rest |-> t]

RECURSIVE SkipWs(_)
SkipWs(t) == IF t # <<>> /\ Head(t) = " " THEN SkipWs(Tail(t)) ELSE t

\* The characters after an opening quote, up to the closing quote.
RECURSIVE ScanString(_, _)
ScanString(t, acc) ==
    IF t = <<>> THEN ParseFail
    ELSE IF Head(t) = "\"" THEN ParseOk(Str(acc), Tail(t))
    ELSE ScanString(Tail(t), Append(acc, Head(t)))

RECURSIVE ScanNumber(_, _)
ScanNumber(t, n) ==
    IF t # <<>> /\ IsDigit(Head(t))
    THEN ScanNumber(Tail(t), 10 * n + DigitVal(Head(t)))
    ELSE ParseOk(Num(n), t)

RECURSIVE ParseValue(_), ParseMembers(_, _), ParseElements(_, _)
ParseValue(t0) ==
    LET t == SkipWs(t0) IN
    IF t = <<>> THEN ParseFail
    ELSE IF Head(t) = "{" THEN
        LET u == SkipWs(Tail(t)) IN
        IF u # <<>> /\ Head(u) = "}" THEN ParseOk(Dict(<<>>), Tail(u))
        ELSE ParseMembers(u, <<>>)
    ELSE IF Head(t) = "[" THEN
        LET u == SkipWs(Tail(t)) IN
        IF u # <<>> /\ Head(u) = "]" THEN ParseOk(List(<<>>), Tail(u))
        ELSE ParseElements(u, <<>>)
    ELSE IF Head(t) = "\"" THEN ScanString(Tail(t), <<>>)
    ELSE IF Head(t) = "0" THEN ParseOk(Num(0), Tail(t))
    ELSE IF IsDigit(Head(t)) THEN ScanNumber(t, 0)
    ELSE IF Head(t) = "null" THEN ParseOk(None, Tail(t))
    ELSE ParseFail

\* key : value pairs of an object; a repeated key keeps its last value.
ParseMembers(t, f) ==
    IF t = <<>> \/ Head(t) # "\"" THEN ParseFail
    ELSE
        LET k == ScanString(Tail(t), <<>>) IN
        IF ~k.ok THEN ParseFail
        ELSE
            LET u == SkipWs(k.rest) IN
            IF u = <<>> \/ Head(u) # ":" THEN ParseFail
            ELSE
                LET v == ParseValue(Tail(u)) IN
                IF ~v.ok THEN ParseFail
                ELSE
                    LET w == SkipWs(v.rest)
                        g == (k.val[2] :> v.val) @@ f
                    IN  IF w = <<>> THEN ParseFail
                        ELSE IF Head(w) = "}" THEN ParseOk(Dict(g), Tail(w))
                        ELSE IF Head(w) = "," THEN ParseMembers(SkipWs(Tail(w)), g)
                        ELSE ParseFail

ParseElements(t, acc) ==
    LET v == ParseValue(t) IN
    IF ~v.ok THEN ParseFail
    ELSE
        LET w == SkipWs(v.rest)
            s == Append(acc, v.val)
        IN  IF w = <<>> THEN ParseFail
            ELSE IF Head(w) = "]" THEN ParseOk(List(s), Tail(w))
            ELSE IF Head(w) = "," THEN ParseElements(Tail(w), s)
            ELSE ParseFail

\* json.loads(text): the value, or raised when the text is not one JSON value.
json_loads(text) ==
    LET r == ParseValue(text) IN
    IF r.ok /\ SkipWs(r.rest) = <<>>
    THEN [raised |-> FALSE, val |-> r.val]
    ELSE [raised |-> TRUE, val |-> None]

-----------------------------------------------------------------------------
(* extract_myx_json *)

RECURSIVE SkipWsAt(_, _)
SkipWsAt(html, i) ==
    IF i <= Len(html) /\ html[i] = " " THEN SkipWsAt(html, i + 1) ELSE i

\* window\.__myx\s*=\s*{ matched at position p: the index of the brace, else 0.
MyxBraceAt(html, p) ==
    IF html[p] # "window.__myx" THEN 0
    ELSE
        LET q == SkipWsAt(html, p + 1) IN
        IF q > Len(html) \/ html[q] # "=" THEN 0
        ELSE
            LET b == SkipWsAt(html, q + 1) IN
            IF b <= Len(html) /\ html[b] = "{" THEN b ELSE 0

\* .*?}; after the brace at b: the index of the first } that a ; follows.
LazyEnd(html, b) ==
    LET E == {e \in (b + 1)..(Len(html) - 1) : html[e] = "}" /\ html[e + 1] = ";"}
    IN  IF E = {} THEN 0 ELSE CHOOSE e \in E : \A x \in E : e <= x

\* re.search(r'window\.__myx\s*=\s*({.*?});', html, re.DOTALL): group 1 of the
\* leftmost match, or no match.
MyxSearch(html) ==
    LET P == {p \in 1..Len(html) :
                 MyxBraceAt(html, p) # 0 /\ LazyEnd(html, MyxBraceAt(html, p)) # 0}
    IN  IF P = {} THEN [found |-> FALSE, txt |-> <<>>]
        ELSE LET p == CHOOSE x \in P : \A y \in P : x <= y
                 b == MyxBraceAt(html, p)
             IN  [found |-> TRUE, txt |-> SubSeq(html, b, LazyEnd(html, b))]

\* The for loop over txt: count braces, stop when the count is back at zero.
RECURSIVE BraceScan(_, _, _)
BraceScan(txt, i, open_braces) ==
    IF i > Len(txt) THEN txt
    ELSE
        LET ch == txt[i]
            n == IF ch = "{" THEN open_braces + 1
                 ELSE IF ch = "}" THEN open_braces - 1
                 ELSE open_braces
        IN  IF n = 0 THEN SubSeq(txt, 1, i) ELSE BraceScan(txt, i + 1, n)

extract_myx_json(html) ==
    LET m == MyxSearch(html) IN
    IF ~m.found THEN Dict(<<>>)
    ELSE
        LET valid == BraceScan(m.txt, 1, 0)
            j == json_loads(valid)
        IN  IF j.raised THEN Dict(<<>>) ELSE j.val

-----------------------------------------------------------------------------
(* The page.  A response body is a record of what the source's regular     *)
(* expressions find in it:                                                 *)
(*   assets  re.findall of the assets.myntassets.com URLs (line 172)       *)
(*   m_og    group 1 of the og:image search, or None (line 177)            *)
(*   blocks  re.findall of the ld+json script blocks (line 133)            *)
(*   m_img   re.findall of the <img> src attributes (line 190)             *)
(*   script  the text the window.__myx search scans (line 90)              *)

\* len(s) of a string value: the characters of its lexemes.
RECURSIVE PyLen(_)
PyLen(s) == IF s = <<>> THEN 0 ELSE Len(Head(s)) + PyLen(Tail(s))

\* src.startswith("http") and "assets" in src, on lexemes.
HttpSchemes == {"http://", "https://"}
AssetLexemes == {"assets/", "assets.myntassets.com/"}
StartsWithHttp(v) == v[2] # <<>> /\ Head(v[2]) \in HttpSchemes
ContainsAssets(v) == \E i \in 1..Len(v[2]) : v[2][i] \in AssetLexemes

LargeSrcLen == 80

\* b.strip()
RECURSIVE StripRight(_)
StripRight(t) ==
    IF t # <<>> /\ t[Len(t)] = " " THEN StripRight(SubSeq(t, 1, Len(t) - 1)) ELSE t
Strip(t) == StripRight(SkipWs(t))

LdKeys == <<"image", "thumbnailUrl", "imageUrl">>

\* for key in ("image", "thumbnailUrl", "imageUrl"): the first key that is
\* present with a truthy value returns that value, or its first element.
RECURSIVE LdKeyScan(_, _)
LdKeyScan(d, k) ==
    IF k > Len(LdKeys) THEN [hit |-> FALSE, val |-> None]
    ELSE IF HasKey(d, LdKeys[k]) /\ Truthy(Item(d, LdKeys[k])) THEN
        LET v == Item(d, LdKeys[k]) IN
        [hit |-> TRUE, val |-> IF IsList(v) THEN v[2][1] ELSE v]
    ELSE LdKeyScan(d, k + 1)

NoHit == [hit |-> FALSE, val |-> None]
HitOr(r, other) == IF r.hit THEN r ELSE other

\* for item in j
RECURSIVE LdItemScan(_, _)
LdItemScan(items, n) ==
    IF n > Len(items) THEN NoHit
    ELSE HitOr(IF IsDict(items[n]) THEN LdKeyScan(items[n], 1) ELSE NoHit,
               LdItemScan(items, n + 1))

\* The body of the try for one block: j = json.loads(b.strip()), then the
\* search of the dict or of the list; an exception skips the block.
LdBlockHit(j) ==
    IF j.raised THEN NoHit
    ELSE IF IsDict(j.val) THEN LdKeyScan(j.val, 1)
    ELSE IF IsList(j.val) THEN LdItemScan(j.val[2], 1)
    ELSE NoHit

\* for b in blocks; return None after the loop.
RECURSIVE LdBlockScan(_, _)
LdBlockScan(blocks, n) ==
    IF n > Len(blocks) THEN [hit |-> TRUE, val |-> None]
    ELSE HitOr(LdBlockHit(json_loads(Strip(blocks[n]))), LdBlockScan(blocks, n + 1))

try_ld_json_image(html) == LdBlockScan(html.blocks, 1).val

\* for src in m_img: the first absolute URL with "assets" or longer than 80.
RECURSIVE ImgCandidate(_, _)
ImgCandidate(m_img, n) ==
    IF n > Len(m_img) THEN None
    ELSE IF StartsWithHttp(m_img[n]) /\ ContainsAssets(m_img[n]) THEN m_img[n]
    ELSE IF StartsWithHttp(m_img[n]) /\ PyLen(m_img[n][2]) > LargeSrcLen THEN m_img[n]
    ELSE ImgCandidate(m_img, n + 1)

NoImage == Lit("No image found")
NA == Lit("NA")

\* The chain carries the image URL found so far and the stages searched.
Searched(r, stage) == [r EXCEPT !.consulted = @ \cup {stage}]
Found(r, v) == [r EXCEPT !.image_url = v]
FoundIfTruthy(r, v) == IF Truthy(v) THEN Found(r, v) ELSE r

\* 1) assets = re.findall(...); image_url = assets[0] if assets else None
StageCdn(html, r) ==
    Found(Searched(r, "cdn"), IF html.assets # <<>> THEN html.assets[1] ELSE None)

\* 2) if not image_url: m_og = re.search(...); if m_og: image_url = m_og.group(1)
StageOg(html, r) ==
    IF Truthy(r.image_url) THEN r
    ELSE IF html.m_og # None THEN Found(Searched(r, "og"), html.m_og)
    ELSE Searched(r, "og")

\* 3) if not image_url: ld = try_ld_json_image(html); if ld: image_url = ld
StageLd(html, r) ==
    IF Truthy(r.image_url) THEN r
    ELSE FoundIfTruthy(Searched(r, "ld"), try_ld_json_image(html))

\* 4) if not image_url: image_url = candidate or (m_img[0] if m_img else None)
StageImg(html, r) ==
    IF Truthy(r.image_url) THEN r
    ELSE Found(Searched(r, "img"),
               PyOr(ImgCandidate(html.m_img, 1),
                    IF html.m_img # <<>> THEN html.m_img[1] ELSE None))

\* if not image_url: image_url = "No image found"
StageSentinel(r) == IF Truthy(r.image_url) THEN r ELSE Found(r, NoImage)

ChainStart == [image_url |-> None, consulted |-> {}]

\* The image chain with the og:image stage ranked above the CDN stage.
image_chain_OgFirst(html) ==
    StageSentinel(StageImg(html, StageLd(html,
        IF html.m_og # None THEN Found(Searched(ChainStart, "og"), html.m_og)
        ELSE StageCdn(html, Searched(ChainStart, "og")))))

\* Lines 170-203 of get_myntra_data: the image URL, and the stages whose
\* search was run to get it.
image_chain(html) ==
    StageSentinel(StageImg(html, StageLd(html, StageOg(html, StageCdn(html, ChainStart)))))

-----------------------------------------------------------------------------
(* Price extraction *)

normalize_price(val) == IF IsDict(val) THEN DictGet(val, "value") ELSE val

get_price_data(data) ==
    IF IsDict(data) /\ HasKey(data, "pdpData") THEN
        LET pd_data == Item(data, "pdpData") IN
        IF IsDict(pd_data) THEN
            IF HasKey(pd_data, "price") THEN Item(pd_data, "price")
            ELSE IF /\ HasKey(pd_data, "product")
                    /\ IsDict(Item(pd_data, "product"))
                    /\ HasKey(Item(pd_data, "product"), "price")
                 THEN Item(Item(pd_data, "product"), "price")
            ELSE IF /\ HasKey(pd_data, "style")
                    /\ IsDict(Item(pd_data, "style"))
                    /\ HasKey(Item(pd_data, "style"), "price")
                 THEN Item(Item(pd_data, "style"), "price")
            ELSE IF HasKey(pd_data, "stylePrices") THEN Item(pd_data, "stylePrices")
            ELSE IF /\ HasKey(pd_data, "sizes")
                    /\ IsList(Item(pd_data, "sizes"))
                    /\ Truthy(Item(pd_data, "sizes"))
                 THEN LET first == Item(pd_data, "sizes")[2][1] IN
                      IF IsDict(first) /\ HasKey(first, "price")
                      THEN Item(first, "price")
                      ELSE Dict(<<>>)
            ELSE Dict(<<>>)
        ELSE Dict(<<>>)
    ELSE Dict(<<>>)

\* str(n) of a non-negative integer, as digit lexemes.
RECURSIVE IntLexemes(_)
IntLexemes(n) ==
    IF n < 10 THEN <<DigitChars[n + 1]>>
    ELSE Append(IntLexemes(n \div 10), DigitChars[(n % 10) + 1])

\* round(num / den) of Python 3 on a non-negative quotient: to the nearest
\* integer, a tie to the even one.  (The source rounds the float
\* (mrp - selling_price) / mrp * 100; the prices of the model are ones where
\* the float and the exact quotient round alike.)
PyRound(num, den) ==
    LET q == num \div den
        r == num % den
    IN  IF 2 * r < den THEN q
        ELSE IF 2 * r > den THEN q + 1
        ELSE IF q % 2 = 0 THEN q ELSE q + 1

\* f"({round((mrp - selling_price) / mrp * 100)}% OFF)"
PercentOff(mrp, selling_price) ==
    Str(<<"(">> \o IntLexemes(PyRound((mrp - selling_price) * 100, mrp)) \o <<"% OFF)">>)

Raised(exc) == [raised |-> TRUE, exc |-> exc,
                selling_price |-> NA, mrp |-> NA, discount_label |-> NA]

\* str(e) of the exceptions the statements can raise.
TypeName(v) ==
    CASE v[1] = "list" -> "list" [] v[1] = "num" -> "int" [] v[1] = "str" -> "str"
      [] OTHER -> "NoneType"
AttributeError(v) == <<"'", TypeName(v), "' object has no attribute 'get'">>
ZeroDivisionError == <<"division by zero">>

\* x or "NA" in the return statement (line 218)
OrNA(v) == PyOr(v, NA)

\* Lines 207-218 of get_myntra_data: the three price fields of the returned
\* tuple, or the exception the statements raise.
price_fields(price_data) ==
    IF ~Truthy(price_data)
    THEN [raised |-> FALSE, exc |-> <<>>,
          selling_price |-> NA, mrp |-> NA, discount_label |-> NA]
    ELSE IF ~IsDict(price_data) THEN Raised(AttributeError(price_data))
    ELSE
        LET mrp == normalize_price(DictGet(price_data, "mrp"))
            sp == normalize_price(PyOr(DictGet(price_data, "discountedPrice"),
                                       DictGet(price_data, "discounted")))
            selling_price == IF ~Truthy(sp) THEN mrp ELSE sp
            dl == PyOr(DictGet(price_data, "discountDisplayLabel"),
                       DictGet(price_data, "discountLabel"))
            synth == /\ ~Truthy(dl)
                     /\ IsNumber(mrp) /\ IsNumber(selling_price)
                     /\ selling_price[2] < mrp[2]
        IN  IF synth /\ mrp[2] = 0 THEN Raised(ZeroDivisionError)
            ELSE
                LET discount_label ==
                        IF synth THEN PercentOff(mrp[2], selling_price[2]) ELSE dl
                IN  [raised |-> FALSE, exc |-> <<>>,
                     selling_price |-> OrNA(selling_price),
                     mrp |-> OrNA(mrp),
                     discount_label |-> OrNA(discount_label)]

-----------------------------------------------------------------------------
(* get_myntra_data *)

\* Lines 170-218: what the body of a 200 response is turned into: the four
\* fields after the identifier, or the exception raised on the way.
Extracted(img, pf) ==
    [raised |-> pf.raised, exc |-> pf.exc, searched |-> img.consulted,
     fields |-> <<img.image_url, pf.selling_price, pf.mrp, pf.discount_label>>]

extract_200(html) ==
    Extracted(image_chain(html),
              price_fields(get_price_data(extract_myx_json(html.script))))

\* `except Exception` narrowed to the transport errors of requests.
Caught_TransportOnly(exc_type) == exc_type = "transport"

\* except Exception as e (line 222): what the handler catches.
Caught(exc_type) == exc_type \in {"transport", "extraction"}

\* The last-attempt test compared against retries instead of retries - 1.
IsLastAttempt_OffByOne(a, n) == a = n

\* if attempt == retries - 1 (line 223)
IsLastAttempt(a, n) == a = n - 1

\* Every 2xx status taken for a page.
IsPage_Any2xx(status_code) == status_code \in 200..299

\* if r.status_code == 200 (line 169)
IsPage(status_code) == status_code = 200

HttpResult(pid, status_code) ==
    <<pid, NoImage, Str(<<"HTTP ">> \o IntLexemes(status_code)), NA, NA>>
ErrorResult(pid, e) == <<pid, NoImage, Str(<<"Error: ">> \o e), NA, NA>>
RetriesFailed(pid) == <<pid, NoImage, Lit("Retries failed"), NA, NA>>

Returned(c, tuple) == [c EXCEPT !.pc = "returned", !.ret = tuple]

\* The call begins: session, headers, url, and the head of the retry loop.
EnterCall(c) ==
    IF 0 < retries THEN [c EXCEPT !.pc = "get", !.attempt = 0]
    ELSE Returned(c, RetriesFailed(c.pid))

\* The trace is kept for an instrumented call only.
Logged(c, ev) == IF c.traced THEN [c EXCEPT !.trace = Append(@, ev)] ELSE c

\* The except clause for an exception of the try block, raised by session.get
\* (transport) or by the statements that follow it (extraction).
Handle(c, exc_type, e) ==
    IF ~Caught(exc_type) THEN [c EXCEPT !.pc = "raised"]
    ELSE IF IsLastAttempt(c.attempt, retries) THEN Returned(c, ErrorResult(c.pid, e))
    ELSE [c EXCEPT !.pc = "sleep"]

\* What the trace keeps of one session.get: the attempt, the outcome, whether
\* the body was parsed, the image stages searched, whether parsing raised.
GetEvent(c, o, parsed, searched, raised) ==
    [e |-> "get", attempt |-> c.attempt, out |-> o.kind, status |-> o.status,
     msg |-> o.msg, parsed |-> parsed, searched |-> searched, raised |-> raised]

\* The statements after a 200 response, x being what the body is turned into.
AfterPage(c, o, x) ==
    Logged(IF x.raised THEN Handle(c, "extraction", x.exc)
           ELSE Returned(c, <<c.pid>> \o x.fields),
           GetEvent(c, o, TRUE, x.searched, x.raised))

\* One pass through the try block with the outcome o of session.get.
AfterGet(c, o) ==
    IF o.kind = "exc"
    THEN Logged(Handle(c, "transport", o.msg), GetEvent(c, o, FALSE, {}, FALSE))
    ELSE IF IsPage(o.status) THEN AfterPage(c, o, extract_200(o.html))
    ELSE Logged(Returned(c, HttpResult(c.pid, o.status)),
                GetEvent(c, o, FALSE, {}, FALSE))

\* wait = backoff * (2 ** attempt) + random.uniform(0, 0.5); time.sleep(wait);
\* then the next value of attempt, or the return after the loop (line 227).
\* The jitter changes no later step and is left out of the trace.
AfterSleep(c) ==
    Logged(IF c.attempt + 1 < retries
           THEN [c EXCEPT !.pc = "get", !.attempt = c.attempt + 1]
           ELSE Returned(c, RetriesFailed(c.pid)),
           [e |-> "sleep", attempt |-> c.attempt, out |-> "slept",
            status |-> backoff * (2 ^ c.attempt), msg |-> <<>>, parsed |-> FALSE,
            searched |-> {}, raised |-> FALSE])

Get(i, o) ==
    /\ i \in 1..Len(calls) /\ calls[i].pc = "get"
    /\ calls' = [calls EXCEPT ![i] = AfterGet(@, o)]
    /\ UNCHANGED <<ids, max_workers, retries, backoff, mainpc, yielded, results,
                   done, csv, call>>

Sleep(i) ==
    /\ i \in 1..Len(calls) /\ calls[i].pc = "sleep"
    /\ calls' = [calls EXCEPT ![i] = AfterSleep(@)]
    /\ UNCHANGED <<ids, max_workers, retries, backoff, mainpc, yielded, results,
                   done, csv, call>>

NewCall(pid, pc, traced) ==
    [pid |-> pid, pc |-> pc, attempt |-> 0, traced |-> traced, trace |-> <<>>,
     ret |-> <<>>]
NoCall == [fn |-> "none", pc |-> "none", arg |-> <<>>, ret |-> <<>>]

-----------------------------------------------------------------------------
(* Direct calls of the helpers: bounded inputs *)

\* The batch variables of a run that only calls one helper directly.
NoBatch ==
    /\ ids = <<>> /\ max_workers = 1 /\ retries = 0 /\ backoff = 0
    /\ mainpc = "none" /\ calls = <<>> /\ yielded = {}
    /\ results = <<>> /\ done = 0 /\ csv = <<>>

MaxStrLen == 2

Quote(s) == <<"\"">> \o s \o <<"\"">>
Member(k, v) == Quote(<<k>>) \o <<":">> \o v
Braced(body) == <<"{">> \o body \o <<"}">>

\* String contents that hold the characters the scan and the regex react to.
StrAlphabet == {"a", "{", "}", ";"}
StrContents == UNION {[1..n -> StrAlphabet] : n \in 0..MaxStrLen}
ScalarTexts == {Quote(s) : s \in StrContents} \cup {<<"1", "0">>}
InnerObjTexts == {Braced(<<>>)} \cup {Braced(Member("b", v)) : v \in ScalarTexts}
\* Well-formed JSON objects: empty, flat, nested, with every string content.
ObjTexts ==
    {Braced(<<>>)}
        \cup {Braced(Member("a", v)) : v \in ScalarTexts \cup InnerObjTexts}
        \cup {Braced(Member("a", <<"1">>) \o <<",">> \o Member("c", v)) : v \in InnerObjTexts}

MyxAssign == <<"window.__myx", " ", "=", " ">>
MyxSuffixes == {<<>>, <<" ", "x", "=", "{", "}", ";">>}
MyxPrefixes == {<<>>, <<"<script>">>}

WellFormedMyx ==
    {[kind |-> "wellformed", obj |-> o, html |-> p \o MyxAssign \o o \o <<";">> \o s] :
        o \in ObjTexts, p \in MyxPrefixes, s \in MyxSuffixes}

\* Bodies with no assignment, and assignments that are not a JSON object.
BrokenMyx ==
    {[kind |-> "absent", obj |-> <<>>, html |-> h] :
        h \in {<<>>, <<"<script>", "x", "=", "{", "}", ";">>, <<"window.__myx", ";">>}}
    \cup
    {[kind |-> "malformed", obj |-> o, html |-> MyxAssign \o o \o <<";">>] :
        o \in {<<"{", "a", ":", "1", "}">>,
               Braced(Member("a", <<"1">>) \o <<",">>),
               Braced(Member("a", <<"0", "1">>)),
               <<"{">> \o Member("a", <<"1">>)}}
    \cup
    {[kind |-> "imbalanced", obj |-> o, html |-> MyxAssign \o o \o <<";">>] :
        o \in {<<"{">> \o Member("a", <<"{", "}">>),
               Braced(Member("a", <<"1">>)) \o <<"}">>,
               <<"{">> \o Member("a", Braced(Member("b", <<"1">>)))}}

MyxInputs == WellFormedMyx \cup BrokenMyx

InitMyx ==
    /\ NoBatch
    /\ \E i \in MyxInputs :
          call = [fn |-> "extract_myx_json", pc |-> "called", arg |-> i, ret |-> None]

CallExtractMyx ==
    /\ call.fn = "extract_myx_json" /\ call.pc = "called"
    /\ call' = [call EXCEPT !.pc = "returned", !.ret = extract_myx_json(call.arg.html)]
    /\ UNCHANGED batchVars

NextMyx == CallExtractMyx

SpecMyx == InitMyx /\ [][NextMyx]_vars

\* C6: extract_myx_json returns exactly the object of a well-formed
\* `window.__myx = {...};` assignment, whatever its nesting and its string
\* contents, and the empty mapping for a body with no assignment or with a
\* malformed or brace-imbalanced one.
C6_RoundTripOrEmpty ==
    (call.fn = "extract_myx_json" /\ call.pc = "returned") =>
        /\ call.arg.kind = "wellformed" => call.ret = json_loads(call.arg.obj).val
        /\ call.arg.kind \in {"absent", "malformed", "imbalanced"} => call.ret = Dict(<<>>)

-----------------------------------------------------------------------------
(* The image chain called on bounded pages *)

MaxBlocks == 2
MaxImgs == 2

CdnA == Str(<<"https://", "assets.myntassets.com/", "a.jpg">>)
CdnB == Str(<<"https://", "assets.myntassets.com/", "b.jpg">>)
OgUrl == Str(<<"https://", "cdn.example.com/", "og.jpg">>)
LongPath == "images/catalog/2024/autumn-winter/product/full-resolution/front-view/0123456789abcdef.jpg"

SrcRelativeAssets == Str(<<"/", "assets/", "sprite.png">>)
SrcShort == Str(<<"https://", "cdn.example.com/", "icon.png">>)
SrcAssets == Str(<<"http://", "cdn.example.com/", "assets/", "p.jpg">>)
SrcLong == Str(<<"https://", "cdn.example.com/", LongPath>>)
Srcs == {SrcRelativeAssets, SrcShort, SrcAssets, SrcLong}

Bracketed(body) == <<"[">> \o body \o <<"]">>
LdMalformed == <<"{", "\"", "image", "\"", ":", "]">>
LdImageList ==
    <<" ">> \o Braced(Member("image", Bracketed(Quote(<<"ld2.jpg">>) \o <<",">> \o Quote(<<"ld3.jpg">>))))
        \o <<" ">>
LdOtherKeys ==
    Braced(Member("imageUrl", Quote(<<"i.jpg">>)) \o <<",">>
           \o Member("thumbnailUrl", Quote(<<"t.jpg">>)) \o <<",">>
           \o Member("image", Quote(<<>>)))
LdArray ==
    Bracketed(Braced(Member("name", Quote(<<"x">>))) \o <<",">> \o <<"7">> \o <<",">>
              \o Braced(Member("imageUrl", Quote(<<"i2.jpg">>))))
LdImageObject == Braced(Member("image", Braced(Member("url", Quote(<<"u.jpg">>)))))
LdEmptyFirst == Braced(Member("image", Bracketed(Quote(<<>>) \o <<",">> \o Quote(<<"ld4.jpg">>))))
LdBlocks == {LdMalformed, LdImageList, LdOtherKeys, LdArray, LdImageObject, LdEmptyFirst}

SeqsUpTo(S, n) == UNION {[1..k -> S] : k \in 0..n}

ImagePages ==
    [assets : {<<>>, <<CdnB, CdnA>>},
     m_og : {None, OgUrl},
     blocks : SeqsUpTo(LdBlocks, MaxBlocks),
     m_img : SeqsUpTo(Srcs, MaxImgs),
     script : {<<>>}]

InitImage ==
    /\ NoBatch
    /\ \E h \in ImagePages :
          call = [fn |-> "image_chain", pc |-> "called", arg |-> h,
                  ret |-> [image_url |-> None, consulted |-> {}]]

CallImageChain ==
    /\ call.fn = "image_chain" /\ call.pc = "called"
    /\ call' = [call EXCEPT !.pc = "returned", !.ret = image_chain(call.arg)]
    /\ UNCHANGED batchVars

NextImage == CallImageChain

SpecImage == InitImage /\ [][NextImage]_vars

Min(S) == CHOOSE x \in S : \A y \in S : x <= y

\* What each stage offers on a page, stated from the stage's description.
\* ld+json: the first block, object or array of objects, that parses and holds
\* a truthy image, thumbnailUrl or imageUrl (in that order); its first element
\* when it is a list.
LdObjects(block) ==
    LET j == json_loads(Strip(block)) IN
    IF j.raised THEN <<>>
    ELSE IF IsDict(j.val) THEN <<j.val>>
    ELSE IF IsList(j.val) THEN j.val[2]
    ELSE <<>>
LdOfferOf(o) ==
    LET K == {k \in 1..Len(LdKeys) :
                 IsDict(o) /\ HasKey(o, LdKeys[k]) /\ Truthy(Item(o, LdKeys[k]))}
    IN  IF K = {} THEN None
        ELSE LET v == Item(o, LdKeys[Min(K)]) IN IF IsList(v) THEN Head(v[2]) ELSE v
LdOfferOfBlock(block) ==
    LET os == LdObjects(block)
        N == {n \in 1..Len(os) : IsDict(os[n]) /\ LdOfferOf(os[n]) # None}
    IN  IF N = {} THEN None ELSE LdOfferOf(os[Min(N)])
OfferLd(h) ==
    LET N == {n \in 1..Len(h.blocks) : LdOfferOfBlock(h.blocks[n]) # None}
    IN  IF N = {} THEN None ELSE LdOfferOfBlock(h.blocks[Min(N)])
OfferImg(h) ==
    LET N == {n \in 1..Len(h.m_img) :
                 /\ Head(h.m_img[n][2]) \in {"http://", "https://"}
                 /\ \/ \E i \in 1..Len(h.m_img[n][2]) :
                          h.m_img[n][2][i] \in {"assets/", "assets.myntassets.com/"}
                    \/ PyLen(h.m_img[n][2]) > 80}
    IN  IF N # {} THEN h.m_img[Min(N)]
        ELSE IF h.m_img # <<>> THEN h.m_img[1] ELSE None
StageRank == <<"cdn", "og", "ld", "img">>
StageOffer(h) ==
    <<IF h.assets # <<>> THEN h.assets[1] ELSE None, h.m_og, OfferLd(h), OfferImg(h)>>
StagesPresent(h) == {k \in 1..4 : Truthy(StageOffer(h)[k])}

\* C7: the image is the offer of the highest-ranked stage that offers one
\* (CDN URL > og:image > ld+json > generic <img>), a stage is searched only when
\* every stage above it offered nothing, the result is "No image found" exactly
\* when no stage offers anything, and it is never empty.
C7_FirstStageWins ==
    (call.fn = "image_chain" /\ call.pc = "returned") =>
        LET P == StagesPresent(call.arg) IN
        /\ IF P = {}
           THEN /\ call.ret.image_url = NoImage
                /\ call.ret.consulted = {"cdn", "og", "ld", "img"}
           ELSE /\ call.ret.image_url = StageOffer(call.arg)[Min(P)]
                /\ call.ret.consulted = {StageRank[k] : k \in 1..Min(P)}
        /\ (call.ret.image_url = NoImage) <=> (P = {})
        /\ Truthy(call.ret.image_url)

\* The ld+json stage decides although <img> tags are present, after the CDN
\* and og:image stages found nothing.
C7_Witness ==
    /\ call.fn = "image_chain" /\ call.pc = "returned"
    /\ call.arg.assets = <<>> /\ call.arg.m_og = None
    /\ call.arg.blocks = <<LdMalformed, LdImageList>>
    /\ call.arg.m_img # <<>>
    /\ call.ret.image_url = Lit("ld2.jpg")
    /\ call.ret.consulted = {"cdn", "og", "ld"}

-----------------------------------------------------------------------------
(* Price extraction called on bounded embedded data *)

Absent == <<"absent", 0>>
Wrapped(v) == Dict(<<"value">> :> v)

MrpValues == {Absent, Num(1000), Wrapped(Num(1000)), Num(8), Num(0), Lit("MRP")}
DiscountedPriceValues ==
    {Absent, Num(800), Wrapped(Num(800)), Num(7), Num(1000), Num(0), Num(-1),
     Wrapped(None), Dict(<<"currency">> :> Lit("INR"))}
DiscountedValues == {Absent, Num(700), Wrapped(Num(995))}
DisplayLabelValues == {Absent, Lit("FLAT 20")}
LabelValues == {Absent, Lit("SALE")}
PriceLocations == {"price", "product", "style", "stylePrices", "sizes"}

PriceInputs ==
    [mrp : MrpValues, discountedPrice : DiscountedPriceValues,
     discounted : DiscountedValues, discountDisplayLabel : DisplayLabelValues,
     discountLabel : LabelValues, at : PriceLocations]

PriceKeys == {"mrp", "discountedPrice", "discounted", "discountDisplayLabel", "discountLabel"}

\* The PriceRecord of an input: a dict of the keys that are present.
PriceRecordOf(i) == Dict([k \in {<<key>> : key \in {x \in PriceKeys : i[x] # Absent}} |-> i[k[1]]])

\* The embedded data that holds the record at the input's location.
DataOf(i) ==
    LET rec == PriceRecordOf(i)
        pd_data ==
            CASE i.at = "price" -> <<"price">> :> rec
              [] i.at = "product" -> <<"product">> :> Dict(<<"price">> :> rec)
              [] i.at = "style" ->
                    (<<"style">> :> Dict(<<"price">> :> rec))
                        @@ (<<"product">> :> Dict(<<"name">> :> Lit("x")))
              [] i.at = "stylePrices" -> <<"stylePrices">> :> rec
              [] i.at = "sizes" ->
                    <<"sizes">> :> List(<<Dict(<<"price">> :> rec), Dict(<<>>)>>)
    IN  Dict(<<"pdpData">> :> Dict(pd_data))

InitPrice ==
    /\ NoBatch
    /\ \E i \in PriceInputs :
          call = [fn |-> "price_fields", pc |-> "called", arg |-> i,
                  ret |-> price_fields(Dict(<<>>))]

CallPriceFields ==
    /\ call.fn = "price_fields" /\ call.pc = "called"
    /\ call' = [call EXCEPT !.pc = "returned",
                            !.ret = price_fields(get_price_data(DataOf(call.arg)))]
    /\ UNCHANGED batchVars

NextPrice == CallPriceFields

SpecPrice == InitPrice /\ [][NextPrice]_vars

\* The normalized value of a key of the record: None when the key is absent.
Unwrapped(v) ==
    IF v = Absent THEN None
    ELSE IF v[1] = "dict" THEN (IF HasKey(v, "value") THEN Item(v, "value") ELSE None)
    ELSE v

\* The selling price, mrp and label the price rules give for an input, a value
\* that is null, zero or empty counting as not given.
ResolvedSelling(i) ==
    IF Truthy(Unwrapped(i.discountedPrice)) THEN Unwrapped(i.discountedPrice)
    ELSE IF Truthy(Unwrapped(i.discounted)) THEN Unwrapped(i.discounted)
    ELSE Unwrapped(i.mrp)
ExpectedSelling(i) == IF Truthy(ResolvedSelling(i)) THEN ResolvedSelling(i) ELSE NA
ExpectedMrp(i) == IF Truthy(Unwrapped(i.mrp)) THEN Unwrapped(i.mrp) ELSE NA
\* p is round(100 (m - s) / m) for m > 0: nearest integer, a tie to the even one.
IsRounded(p, m, s) ==
    LET d == 2 * (100 * (m - s) - p * m) IN
    \/ (-m < d /\ d < m)
    \/ ((d = m \/ d = -m) /\ p % 2 = 0)
ExpectedLabel(i) ==
    IF i.discountDisplayLabel # Absent THEN i.discountDisplayLabel
    ELSE IF i.discountLabel # Absent THEN i.discountLabel
    ELSE LET m == Unwrapped(i.mrp)
             sp == ResolvedSelling(i)
         IN  IF m[1] = "num" /\ sp[1] = "num" /\ sp[2] < m[2]
             THEN Str(<<"(">> \o IntLexemes(CHOOSE p \in 0..(100 * (m[2] - sp[2])) \div m[2] + 1 : IsRounded(p, m[2], sp[2]))
                      \o <<"% OFF)">>)
             ELSE NA

\* C8: the selling price is the normalized discountedPrice, else the normalized
\* discounted, else the mrp; numeric s < m without an explicit label gives
\* "(<p>% OFF)" with p = round((m - s) / m * 100), so 1000 and 800 give
\* "(20% OFF)"; only an mrp m gives selling = m, mrp = m, label "NA"; an
\* explicit label is returned as is; the computation raises nothing.
C8_PriceRules ==
    (call.fn = "price_fields" /\ call.pc = "returned") =>
        /\ ~call.ret.raised
        /\ call.ret.selling_price = ExpectedSelling(call.arg)
        /\ call.ret.mrp = ExpectedMrp(call.arg)
        /\ call.ret.discount_label = ExpectedLabel(call.arg)
        /\ (/\ Unwrapped(call.arg.mrp) = Num(1000)
            /\ Unwrapped(call.arg.discountedPrice) = Num(800)
            /\ call.arg.discountDisplayLabel = Absent /\ call.arg.discountLabel = Absent)
           => /\ call.ret.selling_price = Num(800) /\ call.ret.mrp = Num(1000)
              /\ call.ret.discount_label = Str(<<"(", "2", "0", "% OFF)">>)
        /\ (/\ call.arg.mrp = Num(1000)
            /\ call.arg.discountedPrice = Absent /\ call.arg.discounted = Absent
            /\ call.arg.discountDisplayLabel = Absent /\ call.arg.discountLabel = Absent)
           => /\ call.ret.selling_price = Num(1000) /\ call.ret.mrp = Num(1000)
              /\ call.ret.discount_label = NA

-----------------------------------------------------------------------------
(* Pages and responses *)

Pair(m1, m2) == m1 \o <<",">> \o m2
MyxScript(obj) == <<"<script>">> \o MyxAssign \o obj \o <<";", "</script>">>
PdpData(v) == Braced(Member("pdpData", v))

Page(assets, m_og, blocks, m_img, script) ==
    [assets |-> assets, m_og |-> m_og, blocks |-> blocks, m_img |-> m_img,
     script |-> script]

\* A product page: CDN image, price record with mrp and discountedPrice.
PageGood ==
    Page(<<CdnA, CdnB>>, OgUrl, <<>>, <<SrcShort>>,
         MyxScript(PdpData(Braced(Member("price",
             Braced(Pair(Member("mrp", IntLexemes(1000)),
                         Member("discountedPrice", IntLexemes(800)))))))))
\* A page with none of the signals (a block page, a captcha).
PageBare == Page(<<>>, None, <<>>, <<>>, <<"<html>", "</html>">>)
\* Malformed embedded JSON and a malformed ld+json block; one <img>.
PageBadJson ==
    Page(<<>>, None, <<LdMalformed>>, <<SrcShort>>,
         MyxScript(<<"{", "pdpData", ":", "}">>))
\* Embedded data whose price record lacks every price key.
PageMissingKeys ==
    Page(<<>>, OgUrl, <<>>, <<>>,
         MyxScript(PdpData(Braced(Member("price",
             Braced(Member("currency", Quote(<<"INR">>))))))))
\* Embedded data whose pdpData is a string, and whose sizes are not a list.
PageWrongShape ==
    Page(<<>>, None, <<LdImageObject>>, <<>>,
         MyxScript(PdpData(Quote(<<"x">>))))
\* Embedded data whose price record is a list.
PageListPrice ==
    Page(<<CdnA>>, None, <<>>, <<>>,
         MyxScript(PdpData(Braced(Member("price", Bracketed(IntLexemes(1000)))))))
\* Embedded data whose price record is a number.
PageScalarPrice ==
    Page(<<>>, None, <<>>, <<SrcAssets>>,
         MyxScript(PdpData(Braced(Member("stylePrices", IntLexemes(1000))))))

NoPage == Page(<<>>, None, <<>>, <<>>, <<>>)
Exc(msg) == [kind |-> "exc", status |-> 0, msg |-> msg, html |-> NoPage]
Resp(status_code, html) == [kind |-> "resp", status |-> status_code, msg |-> <<>>, html |-> html]

Timeout == <<"Read timed out.">>
ConnReset == <<"Connection aborted.">>

-----------------------------------------------------------------------------
(* One call of get_myntra_data(pid, retries, backoff) *)

MaxRetries == 3
BackoffChoices == {1, 2}

FetchPages == {PageGood, PageBare, PageBadJson, PageMissingKeys, PageWrongShape,
               PageListPrice, PageScalarPrice}
FetchOutcomes ==
    {Exc(Timeout), Exc(ConnReset)}
        \cup {Resp(st, PageBare) : st \in {204, 404, 503}}
        \cup {Resp(200, h) : h \in FetchPages}

InitFetch ==
    /\ ids = <<>> /\ max_workers = 1
    /\ retries \in 0..MaxRetries /\ backoff \in BackoffChoices
    /\ mainpc = "none"
    /\ calls = <<NewCall("p1", "called", TRUE)>>
    /\ yielded = {} /\ results = <<>> /\ done = 0 /\ csv = <<>>
    /\ call = NoCall

Enter ==
    /\ calls[1].pc = "called"
    /\ calls' = [calls EXCEPT ![1] = EnterCall(@)]
    /\ UNCHANGED <<ids, max_workers, retries, backoff, mainpc, yielded, results,
                   done, csv, call>>

NextFetch ==
    \/ Enter
    \/ \E o \in FetchOutcomes : Get(1, o)
    \/ Sleep(1)

SpecFetch == InitFetch /\ [][NextFetch]_vars

GetsOf(c) == SelectSeq(c.trace, LAMBDA ev : ev.e = "get")
SleepsOf(c) == SelectSeq(c.trace, LAMBDA ev : ev.e = "sleep")
HasReturned(c) == c.pc = "returned"

AllTransport(c) == \A k \in 1..Len(c.trace) : c.trace[k].e = "get" => c.trace[k].out = "exc"

\* C2: when every attempt raises a transport error, a call with retries >= 1
\* makes exactly `retries` GETs, sleeps once between consecutive attempts and
\* not after the last one, and returns "Error: <message of the last attempt>".
C2_TransportRetries ==
    \A i \in 1..Len(calls) :
        LET c == calls[i] IN
        (retries >= 1 /\ AllTransport(c)) =>
            /\ Len(GetsOf(c)) <= retries
            /\ \A k \in 1..Len(c.trace) :
                  /\ c.trace[k].e = (IF k % 2 = 1 THEN "get" ELSE "sleep")
                  /\ c.trace[k].attempt = (k - 1) \div 2
            /\ HasReturned(c) <=> Len(GetsOf(c)) = retries
            /\ HasReturned(c) =>
                  /\ Len(c.trace) = 2 * retries - 1
                  /\ Len(SleepsOf(c)) = retries - 1
                  /\ c.trace[Len(c.trace)].e = "get"
                  /\ c.ret = <<c.pid, Lit("No image found"),
                               Str(<<"Error: ">> \o c.trace[Len(c.trace)].msg),
                               Lit("NA"), Lit("NA")>>

\* Three attempts, each a transport error, the last with another message.
C2_Witness ==
    /\ retries = 3 /\ Len(calls) = 1 /\ HasReturned(calls[1])
    /\ Len(calls[1].trace) = 5
    /\ calls[1].trace[1].msg = Timeout /\ calls[1].trace[5].msg = ConnReset
    /\ AllTransport(calls[1])
    /\ calls[1].ret[3] = Str(<<"Error: ">> \o ConnReset)

StatusText(st) ==
    CASE st = 204 -> <<"2", "0", "4">>
      [] st = 404 -> <<"4", "0", "4">>
      [] st = 503 -> <<"5", "0", "3">>
      [] OTHER -> <<"?">>

\* C3: a response whose status is not 200, on any attempt, ends the call at
\* once with (pid, "No image found", "HTTP <status>", "NA", "NA"): no further
\* GET, no sleep after it, no parsing of the body.
C3_Non200Immediate ==
    \A i \in 1..Len(calls) :
        LET c == calls[i] IN
        \A k \in 1..Len(c.trace) :
            (c.trace[k].e = "get" /\ c.trace[k].out = "resp" /\ c.trace[k].status # 200) =>
                /\ k = Len(c.trace)
                /\ HasReturned(c)
                /\ ~c.trace[k].parsed /\ c.trace[k].searched = {}
                /\ c.ret = <<c.pid, Lit("No image found"),
                             Str(<<"HTTP ">> \o StatusText(c.trace[k].status)),
                             Lit("NA"), Lit("NA")>>

\* A 503 on the second attempt, after a transport error and one sleep.
C3_Witness ==
    /\ Len(calls) = 1 /\ HasReturned(calls[1])
    /\ Len(calls[1].trace) = 3
    /\ calls[1].trace[1].out = "exc" /\ calls[1].trace[2].e = "sleep"
    /\ calls[1].trace[3].status = 503
    /\ calls[1].ret[3] = Str(<<"HTTP ", "5", "0", "3">>)

IsErrorString(v) == v[1] = "str" /\ v[2] # <<>> /\ Head(v[2]) = "Error: "

\* C4: an attempt that receives a 200 response produces the result whatever
\* the body holds: it is the last GET of the call, no sleep follows it, the call
\* has returned, and the result carries no "Error: ..." string.
C4_ParseFailuresLocal ==
    \A i \in 1..Len(calls) :
        LET c == calls[i] IN
        \A k \in 1..Len(c.trace) :
            (c.trace[k].e = "get" /\ c.trace[k].out = "resp" /\ c.trace[k].status = 200) =>
                /\ k = Len(c.trace)
                /\ HasReturned(c)
                /\ ~IsErrorString(c.ret[3])

\* C9: every returned tuple has five fields, none None or empty; the image
\* field is a string (a URL or "No image found"); on the failure paths the
\* image is "No image found", the selling-price slot holds the error string
\* and mrp and label are "NA".
C9_FiveFieldsNoNull ==
    \A i \in 1..Len(calls) :
        LET c == calls[i]
            last == c.trace[Len(c.trace)]
        IN  HasReturned(c) =>
            /\ Len(c.ret) = 5
            /\ c.ret[1] = c.pid
            /\ \A k \in 2..5 : c.ret[k] # None /\ Truthy(c.ret[k])
            /\ c.ret[2][1] = "str"
            /\ IF c.trace = <<>> \/ last.e = "sleep"
               THEN c.ret = <<c.pid, Lit("No image found"), Lit("Retries failed"),
                              Lit("NA"), Lit("NA")>>
               ELSE IF last.out = "exc" \/ last.raised
               THEN /\ c.ret[2] = Lit("No image found") /\ IsErrorString(c.ret[3])
                    /\ c.ret[4] = Lit("NA") /\ c.ret[5] = Lit("NA")
               ELSE IF last.status # 200
               THEN /\ c.ret[2] = Lit("No image found")
                    /\ c.ret[3] = Str(<<"HTTP ">> \o StatusText(last.status))
                    /\ c.ret[4] = Lit("NA") /\ c.ret[5] = Lit("NA")
               ELSE ~IsErrorString(c.ret[3])

-----------------------------------------------------------------------------
(* The batch: ThreadPoolExecutor, as_completed, the CSV *)

MaxIds == 2
MaxWorkersChecked == 2
MinWorkersInput == 1
MaxWorkersInput == 8
DefaultRetries == 2
DefaultBackoff == 1

Pids == {"p1", "p2"}
WorkerChoices == {w \in MinWorkersInput..MaxWorkersInput : w <= MaxWorkersChecked}

\* What a GET of the batch may meet: a timeout, a 404, a product page, a page
\* whose price record is a list.
BatchOutcomes ==
    {Exc(Timeout), Resp(404, PageBare), Resp(200, PageGood), Resp(200, PageListPrice)}

CsvHeader == <<"Product_ID", "Image_URL", "Selling_Price", "MRP", "Discount_Label">>

Init ==
    /\ ids \in SeqsUpTo(Pids, MaxIds)
    /\ max_workers \in WorkerChoices
    /\ retries = DefaultRetries /\ backoff = DefaultBackoff
    /\ mainpc = "submit"
    /\ calls = <<>> /\ yielded = {}
    /\ results = <<>> /\ done = 0 /\ csv = <<>>
    /\ call = NoCall

Running(i) == calls[i].pc \in {"get", "sleep"}

\* A pool that runs one call more than max_workers.
WorkerLimit_OneMore == max_workers + 1

\* A pool that keeps one of its max_workers threads idle.
WorkerLimit_OneLess == max_workers - 1

\* ThreadPoolExecutor(max_workers=int(max_workers)) (line 259)
WorkerLimit == max_workers

\* ex.submit(get_myntra_data, pid) for the next pid of ids (line 260)
Submit ==
    /\ mainpc = "submit" /\ Len(calls) < Len(ids)
    /\ calls' = Append(calls, NewCall(ids[Len(calls) + 1], "queued", FALSE))
    /\ UNCHANGED <<ids, max_workers, retries, backoff, mainpc, yielded, results,
                   done, csv, call>>

\* The comprehension is over: done = 0 and the as_completed loop begins.
BeginCollect ==
    /\ mainpc = "submit" /\ Len(calls) = Len(ids)
    /\ mainpc' = "collect" /\ done' = 0
    /\ UNCHANGED <<ids, max_workers, retries, backoff, calls, yielded, results,
                   csv, call>>

\* A free worker thread takes the oldest queued call and enters it.
StartWorker(i) ==
    /\ i \in 1..Len(calls) /\ calls[i].pc = "queued"
    /\ \A j \in 1..(i - 1) : calls[j].pc # "queued"
    /\ Cardinality({j \in 1..Len(calls) : Running(j)}) < WorkerLimit
    /\ calls' = [calls EXCEPT ![i] = EnterCall(@)]
    /\ UNCHANGED <<ids, max_workers, retries, backoff, mainpc, yielded, results,
                   done, csv, call>>

\* One pass of the as_completed loop: res = fut.result(), which re-raises an
\* exception of the call; results.append(res); done += 1.
Collect(i) ==
    /\ mainpc = "collect"
    /\ i \in 1..Len(calls) /\ i \notin yielded
    /\ calls[i].pc \in {"returned", "raised"}
    /\ yielded' = yielded \cup {i}
    /\ IF calls[i].pc = "raised"
       THEN mainpc' = "crashed" /\ UNCHANGED <<results, done>>
       ELSE /\ results' = Append(results, calls[i].ret)
            /\ done' = done + 1
            /\ UNCHANGED mainpc
    /\ UNCHANGED <<ids, max_workers, retries, backoff, calls, csv, call>>

\* The loop and the with block are over: the header and one row per result.
PrepareCsv ==
    /\ mainpc = "collect" /\ yielded = 1..Len(calls)
    /\ csv' = <<CsvHeader>> \o results
    /\ mainpc' = "done"
    /\ UNCHANGED <<ids, max_workers, retries, backoff, calls, yielded, results,
                   done, call>>

MainNext == Submit \/ BeginCollect \/ (\E i \in 1..MaxIds : Collect(i)) \/ PrepareCsv
WorkerNext(i) == StartWorker(i) \/ (\E o \in BatchOutcomes : Get(i, o)) \/ Sleep(i)

Next == MainNext \/ \E i \in 1..MaxIds : WorkerNext(i)

Spec == Init /\ [][Next]_vars

\* The main thread and every worker thread keep being scheduled, and every
\* session.get ends with a response or an exception (timeout=14).
FairSpec ==
    /\ Init /\ [][Next]_vars
    /\ WF_vars(MainNext)
    /\ \A i \in 1..MaxIds : WF_vars(WorkerNext(i))

CountIn(seq, x) == Cardinality({k \in 1..Len(seq) : seq[k] = x})
FirstFields == [k \in 1..Len(results) |-> results[k][1]]

\* C1: when the batch loop is over, results holds one tuple per submitted
\* identifier, with the same identifiers as often as they were submitted, and no
\* exception of a call ever reaches fut.result().
C1_OneResultPerId ==
    /\ mainpc # "crashed"
    /\ \A i \in 1..Len(calls) : calls[i].pc # "raised"
    /\ mainpc = "done" =>
          /\ Len(results) = Len(ids)
          /\ \A p \in Pids : CountIn(FirstFields, p) = CountIn(ids, p)
          /\ \A k \in 1..Len(results) : Len(results[k]) = 5

\* The same identifier twice: one row from a product page, one from a page
\* whose extraction failed.
C1_Witness ==
    /\ mainpc = "done" /\ ids = <<"p1", "p1">>
    /\ \E k \in 1..2 : results[k][3] = Num(800)
    /\ \E k \in 1..2 : IsErrorString(results[k][3])

\* C5: never more than max_workers calls are started and not yet returned,
\* and the pool is handed each identifier of ids once, in order.
C5_AtMostMaxWorkers ==
    /\ Cardinality({i \in 1..Len(calls) : calls[i].pc \in {"get", "sleep"}}) <= max_workers
    /\ Len(calls) <= Len(ids)
    /\ \A k \in 1..Len(calls) : calls[k].pid = ids[k]
    /\ mainpc \in {"collect", "done"} => Len(calls) = Len(ids)

\* One worker, two identifiers: the second waits while the first is running.
C5_Witness ==
    /\ max_workers = 1 /\ Len(ids) = 2 /\ Len(calls) = 2
    /\ calls[1].pc = "sleep" /\ calls[2].pc = "queued"

\* C10: a started batch ends: it reaches the state where the CSV is prepared,
\* and then the completed count is the number of identifiers and every call has
\* returned; a call makes at most `retries` GETs; the completed count grows by
\* one per collected future and never otherwise.
C10_BatchTerminates ==
    /\ <>(mainpc = "done")
    /\ [](mainpc = "done" =>
            /\ done = Len(ids) /\ Len(results) = Len(ids)
            /\ \A i \in 1..Len(ids) : calls[i].pc = "returned" /\ i \in yielded)
    /\ [](csv # <<>> => mainpc = "done")
    /\ [](\A i \in 1..Len(calls) : calls[i].attempt < retries)
    /\ [][\/ (done' = done /\ yielded' = yielded)
          \/ (done' = done + 1 /\ Cardinality(yielded') = Cardinality(yielded) + 1)]_vars

\* The batch is done after a call that used both of its attempts.
C10_Witness ==
    /\ mainpc = "done" /\ Len(ids) = 2 /\ done = 2
    /\ \E i \in 1..2 : calls[i].attempt = 1

====
